---- MODULE Spec2Model ----
(***************************************************************************)
(* Model of the incremental upsert-ingestion pipeline of                   *)
(* src/src/load_to_db.py (run_pipeline, load_categories, load_videos) and  *)
(* of the raw-data supplier src/fetch_data.py that rewrites its two input  *)
(* files.  The relational store is PostgreSQL: the tables categories and   *)
(* videos, the serial sequence behind videos.id, and one transaction per   *)
(* run (SessionLocal.begin()).                                             *)
(***************************************************************************)
EXTENDS Integers, Sequences, FiniteSets, TLC

VARIABLES
    catFile,        \* data/raw/GB_category_id.json: missing, malformed or its items
    csvFile,        \* data/raw/GBvideos.csv: missing, malformed or its rows
    categories,     \* committed rows of table categories
    videos,         \* committed rows of table videos
    videos_id_seq,  \* last value handed out by the sequence of videos.id
    pc,             \* position of run_pipeline
    tx_categories,  \* table categories as the open session sees it
    tx_videos,      \* table videos as the open session sees it
    status,         \* "none", "Running", or how the run ended: "Committed", "Aborted"
    error,          \* the exception that ended the run, "none" when it committed
    considered,     \* df after the incremental filter (the rows passed downstream)
    dropped_count,  \* dropped_count of load_videos, NotReported when never computed
    writes,         \* the write statements the session has executed in this run
    pre,            \* the committed store when the run started
    rerun,          \* this run repeats a committed run on unchanged input files
    sess            \* two runs started side by side on one store, each with
                    \* its own session (used by SpecTwo only)

vars == <<catFile, csvFile, categories, videos, videos_id_seq, pc, tx_categories,
          tx_videos, status, error, considered, dropped_count, writes, pre, rerun,
          sess>>

----------------------------------------------------------------------------
(* Bounds of the model *)

MaxItems == 2
MaxRows == 2
MaxSeq == 2

----------------------------------------------------------------------------
(* Values *)

NULL == "NULL"
NoDate == 0
NotReported == -1

CategoryIds == {"1", "9"}
CategoryTitles == {"Film", "Autos"}
VideoIds == {"vidA", "vidB"}
\* trending_date as the file writes it: <<yy, dd, mm>>
DateTexts == {<<17, 14, 11>>, <<17, 1, 12>>}
\* the dataset is re-published: edition k reports every measure as of then
Editions == {1, 2}

\* category of the rows of a video in the fact file
CategoryOfVideo(v) == IF v = "vidA" THEN "1" ELSE "9"

\* pd.to_datetime(..., format="%y.%d.%m"): year, then day, then month
ParseTrendingDate(t) == t[1] * 10000 + t[3] * 100 + t[2]

\* pd.to_datetime(..., errors="coerce"): an unparseable publish_time becomes NaT
ParsePublishTime(p) == IF p = "garbled" THEN NULL ELSE p

\* One line of GBvideos.csv as edition k of the dataset reports it.
CsvLine(v, t, k) ==
    [video_id |-> v, trending_date |-> t,
     title |-> IF k = 1 THEN "t1" ELSE "t2",
     channel_title |-> IF k = 1 THEN "ch1" ELSE "ch2",
     category_id |-> CategoryOfVideo(v),
     publish_time |-> IF k = 1 THEN "2017-11-10" ELSE "garbled",
     views |-> 10 * k, likes |-> 5 * k, dislikes |-> k,
     comment_count |-> IF k = 1 THEN 3 ELSE NULL]

CsvLines(k) == {CsvLine(v, t, k) : v \in VideoIds, t \in DateTexts}

\* items of GB_category_id.json: every id under every title, and the two
\* items of the dataset as published
Items == [id : CategoryIds, category_title : CategoryTitles]
PublishedItems ==
    {[id |-> "1", category_title |-> "Film"], [id |-> "9", category_title |-> "Autos"]}

SeqsUpTo(S, n) == UNION {[1..m -> S] : m \in 0..n}

\* A raw file is absent, unreadable, or holds a sequence of entries.
Missing == [kind |-> "missing", rows |-> <<>>]
Malformed == [kind |-> "malformed", rows |-> <<>>]
File(rows) == [kind |-> "ok", rows |-> rows]

\* The files the supplier can leave in data/raw.  A run is explored either
\* over every fact file with the published categories, or over every category
\* file with the fact files of one video.
PublishedCatFiles ==
    {Missing, Malformed} \cup {File(s) : s \in SeqsUpTo(PublishedItems, MaxItems)}
CsvFiles ==
    {Missing, Malformed} \cup
    {File(s) : s \in UNION {SeqsUpTo(CsvLines(k), MaxRows) : k \in Editions}}
CatFiles == {Missing, Malformed} \cup {File(s) : s \in SeqsUpTo(Items, MaxItems)}
OneVideoCsvFiles ==
    {Missing} \cup
    {File(s) : s \in SeqsUpTo({CsvLine("vidA", t, 1) : t \in DateTexts}, 1)}

----------------------------------------------------------------------------
(* Pure parts of load_categories and load_videos *)

Max(S) == CHOOSE x \in S : \A y \in S : y <= x

\* SELECT max(trending_date) FROM videos
Watermark(table) ==
    IF table = {} THEN NoDate ELSE Max({r.trending_date : r \in table})

\* df after the pre-processing of load_videos
Preprocess(file) ==
    [i \in 1..Len(file) |->
        [file[i] EXCEPT !.trending_date = ParseTrendingDate(@),
                        !.publish_time = ParsePublishTime(@)]]

\* KeepNew with the comparison >= : the watermark's own day is read again
KeepNewInclusive(df, last_date) ==
    IF last_date # NoDate
    THEN LET Newer(r) == r.trending_date >= last_date IN SelectSeq(df, Newer)
    ELSE df

\* if last_date: df = df[df["trending_date"] > last_date]
KeepNew(df, last_date) ==
    IF last_date # NoDate
    THEN LET Newer(r) == r.trending_date > last_date IN SelectSeq(df, Newer)
    ELSE df

\* ValidCategories read outside the session: only committed categories
ValidCategoriesCommitted == {c.id : c \in categories}

\* {c[0] for c in session.execute(text("SELECT id FROM categories"))}
ValidCategories == {c.id : c \in tx_categories}

\* RefFilter that filters nothing
RefFilterKeepAll(df, valid_categories) == df

\* df[df["category_id"].isin(valid_categories)]
RefFilter(df, valid_categories) ==
    LET Known(r) == r.category_id \in valid_categories IN SelectSeq(df, Known)

\* InsertCategories without ON CONFLICT: a stored id is an IntegrityError
InsertCategoriesPlain(table, records) ==
    LET F[i \in 0..Len(records)] ==
            IF i = 0 THEN [rows |-> table, err |-> "none"]
            ELSE LET p == F[i - 1]
                     r == records[i]
                 IN IF p.err # "none" THEN p
                    ELSE IF \E c \in p.rows :
                                c.id = r.id \/ c.category_title = r.category_title
                         THEN [p EXCEPT !.err = "IntegrityError"]
                    ELSE [p EXCEPT !.rows = @ \cup {r}]
    IN IF Len(records) = 0
       THEN [rows |-> table, err |-> "IntegrityError"]
       ELSE F[Len(records)]

\* InsertCategories with ON CONFLICT (id) DO UPDATE SET category_title: a
\* stored id takes the title the file gives it
InsertCategoriesUpdateTitle(table, records) ==
    LET F[i \in 0..Len(records)] ==
            IF i = 0 THEN [rows |-> table, err |-> "none"]
            ELSE LET p == F[i - 1]
                     r == records[i]
                 IN IF p.err # "none" THEN p
                    ELSE IF \E c \in p.rows : c.id # r.id /\ c.category_title = r.category_title
                         THEN [p EXCEPT !.err = "IntegrityError"]
                    ELSE [p EXCEPT !.rows = {c \in @ : c.id # r.id} \cup {r}]
    IN IF Len(records) = 0
       THEN [rows |-> table, err |-> "IntegrityError"]
       ELSE F[Len(records)]

\* INSERT INTO categories ... ON CONFLICT (id) DO NOTHING, row by row.
\* category_title is UNIQUE and is not the conflict target: a new id with a
\* stored title is an IntegrityError.  An empty records list compiles to
\* INSERT ... DEFAULT VALUES, which violates NOT NULL on id.
InsertCategories(table, records) ==
    LET F[i \in 0..Len(records)] ==
            IF i = 0 THEN [rows |-> table, err |-> "none"]
            ELSE LET p == F[i - 1]
                     r == records[i]
                 IN IF p.err # "none" THEN p
                    ELSE IF \E c \in p.rows : c.id = r.id THEN p
                    ELSE IF \E c \in p.rows : c.category_title = r.category_title
                         THEN [p EXCEPT !.err = "IntegrityError"]
                    ELSE [p EXCEPT !.rows = @ \cup {r}]
    IN IF Len(records) = 0
       THEN [rows |-> table, err |-> "IntegrityError"]
       ELSE F[Len(records)]

SameKey(a, b) == a.video_id = b.video_id /\ a.trending_date = b.trending_date

VideoRow(r, n) ==
    [id |-> n, video_id |-> r.video_id, trending_date |-> r.trending_date,
     title |-> r.title, channel_title |-> r.channel_title,
     category_id |-> r.category_id, publish_time |-> r.publish_time,
     views |-> r.views, likes |-> r.likes, dislikes |-> r.dislikes,
     comment_count |-> r.comment_count]

\* Overwrite with a set_ that names every column of the proposed row
OverwriteWholeRow(old, r) == VideoRow(r, old.id)

\* set_ of on_conflict_do_update
Overwrite(old, r) ==
    [old EXCEPT !.views = r.views, !.likes = r.likes, !.dislikes = r.dislikes,
                !.comment_count = r.comment_count, !.title = r.title]

\* Upsert as a plain INSERT into a table without uq_video_trending_day
UpsertNoConstraint(table, cats, records, seq) ==
    LET F[i \in 0..Len(records)] ==
            IF i = 0
            THEN [rows |-> table, seq |-> seq, touched |-> {}, err |-> "none"]
            ELSE LET p == F[i - 1]
                     r == records[i]
                     n == p.seq + 1
                 IN IF p.err # "none" THEN p
                    ELSE IF r.category_id \notin {c.id : c \in cats}
                         THEN [p EXCEPT !.seq = n, !.err = "IntegrityError"]
                    ELSE [p EXCEPT !.seq = n,
                                   !.rows = @ \cup {VideoRow(r, n)},
                                   !.touched = @ \cup {n}]
    IN IF Len(records) = 0
       THEN [rows |-> table, seq |-> seq + 1, touched |-> {}, err |-> "IntegrityError"]
       ELSE F[Len(records)]

\* INSERT INTO videos ... ON CONFLICT (video_id, trending_date) DO UPDATE, row
\* by row: every proposed row draws its id from the sequence; a key already
\* in the table is updated in place; a key this statement already wrote is a
\* cardinality violation; category_id must reference categories.id.  An
\* empty records list compiles to INSERT ... DEFAULT VALUES, which violates
\* NOT NULL on video_id.
Upsert(table, cats, records, seq) ==
    LET F[i \in 0..Len(records)] ==
            IF i = 0
            THEN [rows |-> table, seq |-> seq, touched |-> {}, err |-> "none"]
            ELSE LET p == F[i - 1]
                     r == records[i]
                     n == p.seq + 1
                     hit == {o \in p.rows : SameKey(o, r)}
                 IN IF p.err # "none" THEN p
                    ELSE IF r.category_id \notin {c.id : c \in cats}
                         THEN [p EXCEPT !.seq = n, !.err = "IntegrityError"]
                    ELSE IF hit = {}
                         THEN [p EXCEPT !.seq = n,
                                        !.rows = @ \cup {VideoRow(r, n)},
                                        !.touched = @ \cup {n}]
                    ELSE IF \E o \in hit : o.id \in p.touched
                         THEN [p EXCEPT !.seq = n, !.err = "CardinalityViolation"]
                    ELSE [p EXCEPT !.seq = n,
                                   !.rows = (@ \ hit) \cup {Overwrite(o, r) : o \in hit},
                                   !.touched = @ \cup {o.id : o \in hit}]
    IN IF Len(records) = 0
       THEN [rows |-> table, seq |-> seq + 1, touched |-> {}, err |-> "IntegrityError"]
       ELSE F[Len(records)]

\* CreateAll that drops the tables before it creates them
CreateAllDropFirst(table) == {}

\* Base.metadata.create_all(engine): existing tables are left as they are
CreateAll(table) == table

\* a rollback that keeps the category rows the session inserted
RollbackCategoriesKept == tx_categories

\* leaving `with SessionLocal.begin()` on an exception: ROLLBACK
RollbackCategories == categories
RollbackVideos == videos

\* a commit that loses the category rows the session inserted
CommitCategoriesLost == categories

\* leaving `with SessionLocal.begin()` normally: COMMIT
CommitCategories == tx_categories
CommitVideos == tx_videos

\* the two runs of the overlapping scenario (two invocations of
\* run_pipeline, each opening its own SessionLocal)
Sessions == {1, 2}

\* a run that has not started: nothing read, nothing written, nothing returned
NoSession ==
    [pc |-> "idle", status |-> "none", error |-> "none", df |-> <<>>,
     records |-> <<>>, cats |-> {}, rows |-> {}, touched |-> {},
     returned |-> "nothing", logged |-> <<"", "", "">>]

\* the last record run_pipeline logs: its level, its text, the exception in it
LogCompleted == <<"INFO", "Pipeline completed successfully.", "">>
LogFailed(e) ==
    IF e = "OperationalError"
    THEN <<"CRITICAL", "Could not connect to PostgreSQL. Check your .env file.", "">>
    ELSE <<"CRITICAL", "Pipeline failed: ", e>>

----------------------------------------------------------------------------
(* The state machine *)

Init ==
    /\ catFile = Missing
    /\ csvFile = Missing
    /\ categories = {}
    /\ videos = {}
    /\ videos_id_seq = 0
    /\ pc = "idle"
    /\ tx_categories = {}
    /\ tx_videos = {}
    /\ status = "none"
    /\ error = "none"
    /\ considered = <<>>
    /\ dropped_count = NotReported
    /\ writes = <<>>
    /\ pre = [categories |-> {}, videos |-> {}]
    /\ rerun = FALSE
    /\ sess = [r \in Sessions |-> NoSession]

\* The run ends Aborted: the exception leaves the session block, the store
\* rolls back, run_pipeline logs it.
Abort(e) ==
    /\ pc' = "done"
    /\ status' = "Aborted"
    /\ error' = e
    /\ categories' = RollbackCategories
    /\ videos' = RollbackVideos
    /\ tx_categories' = {}
    /\ tx_videos' = {}

\* fetch_data.download_youtube_data: between runs the supplier rewrites one
\* of the raw files
DownloadFrom(catFiles, csvFiles) ==
    /\ pc \in {"idle", "done"}
    /\ \/ \E c \in catFiles \ {catFile} : catFile' = c /\ UNCHANGED csvFile
       \/ \E v \in csvFiles \ {csvFile} : csvFile' = v /\ UNCHANGED catFile
    /\ pc' = "idle"
    /\ status' = "none"
    /\ error' = "none"
    /\ considered' = <<>>
    /\ dropped_count' = NotReported
    /\ writes' = <<>>
    /\ pre' = [categories |-> categories, videos |-> videos]
    /\ rerun' = FALSE
    /\ UNCHANGED <<categories, videos, videos_id_seq, tx_categories, tx_videos, sess>>

\* run_pipeline up to the opening of the session
StartRun ==
    /\ pc \in {"idle", "done"}
    /\ rerun' = (pc = "done" /\ status = "Committed")
    /\ pre' = [categories |-> categories, videos |-> videos]
    /\ considered' = <<>>
    /\ dropped_count' = NotReported
    /\ writes' = <<>>
    /\ \E fail \in BOOLEAN :
          IF fail
          THEN /\ pc' = "done"
               /\ status' = "Aborted"
               /\ error' = "OperationalError"
               /\ UNCHANGED <<categories, videos, tx_categories, tx_videos>>
          ELSE /\ pc' = "load_categories"
               /\ status' = "Running"
               /\ error' = "none"
               /\ categories' = CreateAll(categories)
               /\ videos' = CreateAll(videos)
               /\ tx_categories' = CreateAll(categories)
               /\ tx_videos' = CreateAll(videos)
    /\ UNCHANGED <<catFile, csvFile, videos_id_seq, sess>>

LoadCategories ==
    /\ pc = "load_categories"
    /\ \E fail \in BOOLEAN :
          IF catFile.kind = "missing" THEN
              /\ Abort("FileNotFoundError")
              /\ UNCHANGED writes
          ELSE IF catFile.kind = "malformed" THEN
              /\ Abort("JSONDecodeError")
              /\ UNCHANGED writes
          ELSE IF fail THEN
              /\ Abort("OperationalError")
              /\ UNCHANGED writes
          ELSE LET res == InsertCategories(tx_categories, catFile.rows)
               IN IF res.err # "none"
                  THEN /\ Abort(res.err)
                       /\ UNCHANGED writes
                  ELSE /\ tx_categories' = res.rows
                       /\ writes' = Append(writes, "categories")
                       /\ pc' = "load_videos"
                       /\ UNCHANGED <<categories, videos, tx_videos, status, error>>
    /\ UNCHANGED <<catFile, csvFile, videos_id_seq, considered, dropped_count, pre, rerun,
                   sess>>

LoadVideos ==
    /\ pc = "load_videos"
    /\ \E fault \in {"none", "select", "upsert"} :
          IF csvFile.kind = "missing" THEN
              /\ Abort("FileNotFoundError")
              /\ UNCHANGED <<videos_id_seq, considered, dropped_count, writes>>
          ELSE IF csvFile.kind = "malformed" THEN
              /\ Abort("ValueError")
              /\ UNCHANGED <<videos_id_seq, considered, dropped_count, writes>>
          ELSE IF fault = "select" THEN
              /\ Abort("OperationalError")
              /\ UNCHANGED <<videos_id_seq, considered, dropped_count, writes>>
          ELSE
              LET df == KeepNew(Preprocess(csvFile.rows), Watermark(tx_videos))
                  df_filtered == RefFilter(df, ValidCategories)
                  res == Upsert(tx_videos, tx_categories, df_filtered, videos_id_seq)
              IN /\ Len(df) > 0 => res.seq <= MaxSeq
                 /\ considered' = df
                 /\ IF Len(df) = 0
                    THEN /\ pc' = "commit"
                         /\ UNCHANGED <<categories, videos, tx_categories, tx_videos,
                                        status, error, videos_id_seq, dropped_count,
                                        writes>>
                    ELSE /\ dropped_count' = Len(df) - Len(df_filtered)
                         /\ IF fault = "upsert"
                            THEN /\ Abort("OperationalError")
                                 /\ UNCHANGED <<videos_id_seq, writes>>
                            ELSE IF res.err # "none"
                            THEN /\ Abort(res.err)
                                 /\ videos_id_seq' = res.seq
                                 /\ UNCHANGED writes
                            ELSE /\ tx_videos' = res.rows
                                 /\ videos_id_seq' = res.seq
                                 /\ writes' = Append(writes, "videos")
                                 /\ pc' = "commit"
                                 /\ UNCHANGED <<categories, videos, tx_categories,
                                                status, error>>
    /\ UNCHANGED <<catFile, csvFile, pre, rerun, sess>>

\* leaving the session block: COMMIT, which the store may still refuse
Commit ==
    /\ pc = "commit"
    /\ \E fail \in BOOLEAN :
          IF fail
          THEN Abort("OperationalError")
          ELSE /\ categories' = CommitCategories
               /\ videos' = CommitVideos
               /\ tx_categories' = {}
               /\ tx_videos' = {}
               /\ pc' = "done"
               /\ status' = "Committed"
               /\ error' = "none"
    /\ UNCHANGED <<catFile, csvFile, videos_id_seq, considered, dropped_count, writes,
                   pre, rerun, sess>>

Download == DownloadFrom(PublishedCatFiles, CsvFiles)

DownloadCategories == DownloadFrom(CatFiles, OneVideoCsvFiles)

Next == Download \/ StartRun \/ LoadCategories \/ LoadVideos \/ Commit

Spec == Init /\ [][Next]_vars

NextCat == DownloadCategories \/ StartRun \/ LoadCategories \/ LoadVideos \/ Commit

SpecCat == Init /\ [][NextCat]_vars

----------------------------------------------------------------------------
(* Two runs side by side on one store.  PostgreSQL runs each session READ  *)
(* COMMITTED: a statement sees the committed tables and its own session's  *)
(* writes.  A statement that meets a key another open session has written  *)
(* waits until that session commits or rolls back, and decides then.       *)

\* the other of the two runs
Other(r) == CHOOSE o \in Sessions : o # r

\* the files the supplier can leave in data/raw while the two runs go on:
\* the rows of one video on one day, as either edition reports them
TwoCatFiles == {Missing, Malformed, File(<<[id |-> "1", category_title |-> "Film"]>>)}
TwoCsvFiles ==
    {Missing, Malformed} \cup
    {File(s) : s \in UNION {SeqsUpTo({CsvLine("vidA", <<17, 14, 11>>, k)}, MaxRows) :
                               k \in Editions}}

\* variables of the single run, which the two side-by-side runs leave alone
runVars == <<pc, tx_categories, tx_videos, status, error, considered, dropped_count,
             writes, pre, rerun>>

\* the primary key and the unique title of categories: the insert waits while
\* the other session holds an uncommitted row with a record's id or title
CategoryLocked(r, records) ==
    \E i \in 1..Len(records), c \in sess[Other(r)].cats :
        c.id = records[i].id \/ c.category_title = records[i].category_title

\* KeyLocked of a store that checks existence without uq_video_trending_day:
\* the statement never waits for the other session's uncommitted row
KeyLockedNever(r, records) == FALSE

\* uq_video_trending_day as the arbiter of ON CONFLICT: the upsert waits
\* while the other session holds an uncommitted row with a record's key
KeyLocked(r, records) ==
    \E i \in 1..Len(records), o \in sess[Other(r)].rows : SameKey(o, records[i])

\* run r ends Aborted: its session rolls back, run_pipeline logs the
\* exception and falls off its end
SessionAbort(r, e) ==
    sess' = [sess EXCEPT ![r] = [@ EXCEPT !.pc = "done", !.status = "Aborted",
                                          !.error = e, !.cats = {}, !.rows = {},
                                          !.touched = {}, !.returned = "None",
                                          !.logged = LogFailed(e)]]

TwoDownload ==
    /\ \/ \E c \in TwoCatFiles \ {catFile} : catFile' = c /\ UNCHANGED csvFile
       \/ \E v \in TwoCsvFiles \ {csvFile} : csvFile' = v /\ UNCHANGED catFile
    /\ UNCHANGED <<categories, videos, videos_id_seq, sess, runVars>>

TwoStart ==
    \E r \in Sessions, fail \in BOOLEAN :
        /\ sess[r].pc \in {"idle", "done"}
        /\ IF fail
           THEN sess' = [sess EXCEPT ![r] = [NoSession EXCEPT !.pc = "done",
                                                              !.status = "Aborted",
                                                              !.error = "OperationalError",
                                                              !.returned = "None",
                                                              !.logged = LogFailed("OperationalError")]]
           ELSE sess' = [sess EXCEPT ![r] = [NoSession EXCEPT !.pc = "load_categories",
                                                              !.status = "Running"]]
        /\ UNCHANGED <<catFile, csvFile, categories, videos, videos_id_seq, runVars>>

TwoLoadCategories ==
    \E r \in Sessions, fail \in BOOLEAN :
        /\ sess[r].pc = "load_categories"
        /\ IF catFile.kind = "missing" THEN SessionAbort(r, "FileNotFoundError")
           ELSE IF catFile.kind = "malformed" THEN SessionAbort(r, "JSONDecodeError")
           ELSE IF fail THEN SessionAbort(r, "OperationalError")
           ELSE LET res == InsertCategories(categories, catFile.rows)
                IN /\ ~CategoryLocked(r, catFile.rows)
                   /\ IF res.err # "none"
                      THEN SessionAbort(r, res.err)
                      ELSE sess' = [sess EXCEPT ![r] =
                                       [@ EXCEPT !.pc = "watermark",
                                                 !.cats = res.rows \ categories]]
        /\ UNCHANGED <<catFile, csvFile, categories, videos, videos_id_seq, runVars>>

\* load_videos up to the early return: the file, the watermark, the new rows
TwoReadWatermark ==
    \E r \in Sessions, fail \in BOOLEAN :
        /\ sess[r].pc = "watermark"
        /\ IF csvFile.kind = "missing" THEN SessionAbort(r, "FileNotFoundError")
           ELSE IF csvFile.kind = "malformed" THEN SessionAbort(r, "ValueError")
           ELSE IF fail THEN SessionAbort(r, "OperationalError")
           ELSE LET df == KeepNew(Preprocess(csvFile.rows), Watermark(videos))
                IN sess' = [sess EXCEPT ![r] =
                               [@ EXCEPT !.df = df,
                                         !.pc = IF Len(df) = 0 THEN "commit"
                                                ELSE "filter"]]
        /\ UNCHANGED <<catFile, csvFile, categories, videos, videos_id_seq, runVars>>

\* load_videos: the valid category ids and the referential filter
TwoFilter ==
    \E r \in Sessions, fail \in BOOLEAN :
        /\ sess[r].pc = "filter"
        /\ IF fail THEN SessionAbort(r, "OperationalError")
           ELSE sess' = [sess EXCEPT ![r] =
                            [@ EXCEPT !.records =
                                          RefFilter(sess[r].df,
                                                    {c.id : c \in categories \cup sess[r].cats}),
                                      !.pc = "upsert"]]
        /\ UNCHANGED <<catFile, csvFile, categories, videos, videos_id_seq, runVars>>

\* load_videos: the upsert statement of session r
TwoUpsert ==
    \E r \in Sessions, fail \in BOOLEAN :
        /\ sess[r].pc = "upsert"
        /\ IF fail
           THEN SessionAbort(r, "OperationalError") /\ UNCHANGED videos_id_seq
           ELSE LET res == Upsert(videos, categories \cup sess[r].cats,
                                  sess[r].records, videos_id_seq)
                IN /\ ~KeyLocked(r, sess[r].records)
                   /\ res.seq <= MaxSeq
                   /\ videos_id_seq' = res.seq
                   /\ IF res.err # "none"
                      THEN SessionAbort(r, res.err)
                      ELSE sess' = [sess EXCEPT ![r] =
                                       [@ EXCEPT !.pc = "commit",
                                                 !.rows = res.rows \ videos,
                                                 !.touched = res.touched]]
        /\ UNCHANGED <<catFile, csvFile, categories, videos, runVars>>

\* COMMIT of session r: its rows become the committed rows
TwoCommit ==
    \E r \in Sessions, fail \in BOOLEAN :
        /\ sess[r].pc = "commit"
        /\ IF fail
           THEN SessionAbort(r, "OperationalError") /\ UNCHANGED <<categories, videos>>
           ELSE /\ categories' = categories \cup sess[r].cats
                /\ videos' = {o \in videos : o.id \notin sess[r].touched} \cup sess[r].rows
                /\ sess' = [sess EXCEPT ![r] =
                               [@ EXCEPT !.pc = "done", !.status = "Committed",
                                         !.cats = {}, !.rows = {}, !.touched = {},
                                         !.returned = "None",
                                         !.logged = LogCompleted]]
        /\ UNCHANGED <<catFile, csvFile, videos_id_seq, runVars>>

NextTwo ==
    TwoDownload \/ TwoStart \/ TwoLoadCategories \/ TwoReadWatermark \/ TwoFilter
    \/ TwoUpsert \/ TwoCommit

SpecTwo == Init /\ [][NextTwo]_vars

----------------------------------------------------------------------------
(* The upsert statement alone, on every small table and every small batch  *)
(* of records whose categories are stored.                                 *)

\* the trending rows of one video, each edition filed under either category
UpsertLines ==
    {[CsvLine("vidA", t, k) EXCEPT !.category_id = c] :
        t \in DateTexts, k \in Editions, c \in CategoryIds}

\* the table an earlier statement left: row i got the i-th sequence value
TableOf(stored) == {VideoRow(Preprocess(stored)[i], i) : i \in 1..Len(stored)}

InitUpsert ==
    \E stored \in {q \in SeqsUpTo(UpsertLines, MaxRows) :
                      \A i, j \in 1..Len(q) :
                          q[i].trending_date = q[j].trending_date => i = j},
       batch \in SeqsUpTo(UpsertLines, MaxRows) :
        /\ catFile = Missing
        /\ csvFile = File(batch)
        /\ categories = PublishedItems
        /\ videos = TableOf(stored)
        /\ videos_id_seq = Len(stored)
        /\ pc = "upsert"
        /\ tx_categories = PublishedItems
        /\ tx_videos = TableOf(stored)
        /\ status = "Running"
        /\ error = "none"
        /\ considered = Preprocess(batch)
        /\ dropped_count = 0
        /\ writes = <<"categories">>
        /\ pre = [categories |-> PublishedItems, videos |-> TableOf(stored)]
        /\ rerun = FALSE
        /\ sess = [r \in Sessions |-> NoSession]

\* session.execute(upsert_stmt) on the records as given
ApplyUpsert ==
    /\ pc = "upsert"
    /\ LET res == Upsert(tx_videos, tx_categories, considered, videos_id_seq)
       IN /\ tx_videos' = res.rows
          /\ videos_id_seq' = res.seq
          /\ error' = res.err
          /\ writes' = IF res.err = "none" THEN Append(writes, "videos") ELSE writes
    /\ pc' = "applied"
    /\ UNCHANGED <<catFile, csvFile, categories, videos, tx_categories, status,
                   considered, dropped_count, pre, rerun, sess>>

NextUpsert == ApplyUpsert

SpecUpsert == InitUpsert /\ [][NextUpsert]_vars

----------------------------------------------------------------------------
(* Properties *)

IdsOf(table) == {c.id : c \in table}

Measures(r) == <<r.views, r.likes, r.dislikes, r.comment_count>>

\* the batch as load_videos reads it
Batch == Preprocess(csvFile.rows)

\* the row r of the batch is stored in table, under whatever surrogate id
Present(r, table) == \E o \in table : o = VideoRow(r, o.id)

\* the ids of table categories once this run's load_categories has succeeded
SeenCategoryIds == IdsOf(pre.categories) \cup {catFile.rows[i].id : i \in 1..Len(catFile.rows)}

UnknownIn(df) == {i \in 1..Len(df) : df[i].category_id \notin SeenCategoryIds}

NoRepeatedKey(df) ==
    \A i, j \in 1..Len(df) : SameKey(df[i], df[j]) => i = j

\* C1: a run that repeats a committed run, on the same input files and on the
\* store that run left, ends with the store (categories and videos) exactly
\* as that first run left it.
C1_Idempotent ==
    (pc = "done" /\ rerun) =>
        /\ categories = pre.categories
        /\ videos = pre.videos

C1_Witness ==
    /\ pc = "done" /\ rerun /\ status = "Committed"
    /\ videos # {}
    /\ Len(Batch) > 0

\* C2: when the store holds a row for (E, D) and a run whose batch has
\* (E, D) with a valid category commits, there is exactly one row for (E, D)
\* and it carries the measures of the batch.
C2_UpsertAcrossRuns ==
    (pc = "done" /\ status = "Committed") =>
        \A i \in 1..Len(Batch) :
            LET r == Batch[i]
            IN (/\ r.category_id \in IdsOf(categories)
                /\ \E o \in pre.videos : SameKey(o, r))
               => /\ Cardinality({o \in videos : SameKey(o, r)}) = 1
                  /\ \A o \in videos : SameKey(o, r) => Measures(o) = Measures(r)

\* C3: no two rows of table videos share (video_id, trending_date).
C3_Uniqueness ==
    \A a, b \in videos : SameKey(a, b) => a = b

C3_Witness ==
    /\ pc = "done" /\ status = "Committed"
    /\ \E a, b \in videos : a # b /\ a.video_id = b.video_id
    /\ videos # pre.videos

\* C4: in every committed store state every row of videos has a category_id
\* that is the id of a row of categories.
C4_ReferentialIntegrity ==
    \A r \in videos : r.category_id \in IdsOf(categories)

C4_Witness ==
    /\ pc = "done" /\ status = "Committed"
    /\ dropped_count >= 1
    /\ videos # pre.videos

\* C5: the watermark max(trending_date) of the committed videos table never
\* decreases, whatever a run does; the empty table counts as below every date.
C5_WatermarkMonotonic ==
    [][Watermark(videos') >= Watermark(videos)]_vars

C5_Witness ==
    /\ pc = "done"
    /\ pre.videos # {}
    /\ Watermark(videos) > Watermark(pre.videos)

\* C6: a run ends Aborted exactly when a step raised, and an aborted run
\* leaves categories and videos as they were before the run, also when
\* load_categories had already inserted rows.
C6_AllOrNothing ==
    pc = "done" =>
        /\ (status = "Aborted") <=> (error # "none")
        /\ status = "Aborted" =>
              /\ categories = pre.categories
              /\ videos = pre.videos

C6_Witness ==
    /\ pc = "done" /\ status = "Aborted"
    /\ writes = <<"categories">>
    /\ \E i \in 1..Len(catFile.rows) : catFile.rows[i].id \notin IdsOf(categories)

\* C7 as claimed: the drop count a committed run reports is the number of
\* rows of the whole batch whose category id is not in the dimension, and
\* none of those rows is stored.
C7_DropAccountingWholeBatch ==
    (pc = "done" /\ status = "Committed" /\ catFile.kind = "ok") =>
        /\ UnknownIn(Batch) # {} => dropped_count = Cardinality(UnknownIn(Batch))
        /\ \A i \in UnknownIn(Batch) : ~Present(Batch[i], videos)

\* C7 as amended: in a run that reaches the referential filter the reported
\* drop count is the number of rows passed by the incremental filter whose
\* category id is not in table categories, and none of those rows is stored.
C7_DropAccounting ==
    (pc = "done" /\ dropped_count # NotReported) =>
        /\ dropped_count = Cardinality(UnknownIn(considered))
        /\ \A i \in UnknownIn(considered) : ~Present(considered[i], videos)

C7_Witness ==
    /\ pc = "done" /\ status = "Committed"
    /\ dropped_count >= 1
    /\ Len(considered) > dropped_count

\* C8: a run whose new rows include rows of an unknown category, and that
\* meets no store failure and no repeated key, commits; it stores the rows of
\* a known category and does not store the others.
C8_MissingCategoryNeverFails ==
    (/\ pc = "done"
     /\ dropped_count >= 1
     /\ error # "OperationalError"
     /\ NoRepeatedKey(considered)) =>
        /\ status = "Committed"
        /\ \A i \in 1..Len(considered) :
              Present(considered[i], videos) <=> i \notin UnknownIn(considered)

FirstTitle(records, id) ==
    LET first == CHOOSE i \in 1..Len(records) :
                    /\ records[i].id = id
                    /\ \A j \in 1..Len(records) : records[j].id = id => i <= j
    IN records[first].category_title

\* C9: after a run commits, every id of the category file is in table
\* categories, an id that was not stored before under the title of its first
\* item; and a file whose ids are all stored already does not make
\* load_categories fail.
C9_InsertIfAbsent ==
    (pc = "done" /\ catFile.kind = "ok") =>
        /\ status = "Committed" =>
              \A i \in 1..Len(catFile.rows) :
                 LET id == catFile.rows[i].id
                 IN /\ id \in IdsOf(categories)
                    /\ id \notin IdsOf(pre.categories) =>
                          [id |-> id, category_title |-> FirstTitle(catFile.rows, id)]
                              \in categories
        /\ (/\ Len(catFile.rows) > 0
            /\ \A i \in 1..Len(catFile.rows) : catFile.rows[i].id \in IdsOf(pre.categories))
           => (Len(writes) >= 1 \/ error = "OperationalError")

C9_Witness ==
    /\ pc = "done" /\ status = "Committed" /\ catFile.kind = "ok"
    /\ \E i, j \in 1..Len(catFile.rows) :
          /\ catFile.rows[i].id \in IdsOf(pre.categories)
          /\ catFile.rows[j].id \notin IdsOf(pre.categories)
          /\ [id |-> catFile.rows[i].id, category_title |-> catFile.rows[i].category_title]
                \notin categories

\* C10: in a run that starts on a non-empty videos table with watermark W,
\* every row passed downstream has trending_date > W, every row the run adds
\* has trending_date > W, and every row stored before the run is unchanged.
C10_WatermarkBound ==
    (pc = "done" /\ pre.videos # {}) =>
        /\ \A i \in 1..Len(considered) :
              considered[i].trending_date > Watermark(pre.videos)
        /\ \A r \in videos \ pre.videos : r.trending_date > Watermark(pre.videos)
        /\ pre.videos \subseteq videos

C10_Witness ==
    /\ pc = "done" /\ status = "Committed"
    /\ pre.videos # {}
    /\ videos # pre.videos
    /\ \E i \in 1..Len(Batch) : \E o \in pre.videos :
          SameKey(o, Batch[i]) /\ Measures(o) # Measures(Batch[i])

\* every row the store holds, committed or written by a session still open
AllRows == videos \cup sess[1].rows \cup sess[2].rows

\* run r has committed a batch that held the key of row o
CommittedKey(r, o) ==
    /\ sess[r].pc = "done"
    /\ sess[r].status = "Committed"
    /\ \E i \in 1..Len(sess[r].records) : SameKey(sess[r].records[i], o)

OutcomeKind(r) ==
    IF sess[r].status = "Committed"
    THEN IF Len(sess[r].df) = 0 THEN "CommittedNoNewData" ELSE "CommittedNewData"
    ELSE CASE sess[r].error = "FileNotFoundError" -> "InputMissing"
           [] sess[r].error \in {"JSONDecodeError", "ValueError"} -> "InputMalformed"
           [] sess[r].error = "OperationalError" -> "StoreUnavailable"
           [] OTHER -> "ConstraintViolation"

\* what run r hands back: the value run_pipeline returns and the last record
\* it logs
Reported(r) == <<sess[r].returned, sess[r].logged>>

\* C12: every finished run ended in exactly one of Committed or Aborted, and
\* any two finished runs that ended in different ways (committed without new
\* data, committed with new data, input missing, input malformed, store
\* unavailable, constraint violation) reported different terminal statuses.
C12_DistinguishableStatus ==
    /\ \A r \in Sessions :
          sess[r].pc = "done" => sess[r].status \in {"Committed", "Aborted"}
    /\ \A r1, r2 \in Sessions :
          (/\ sess[r1].pc = "done"
           /\ sess[r2].pc = "done"
           /\ OutcomeKind(r1) # OutcomeKind(r2))
          => Reported(r1) # Reported(r2)

\* the rows of table stored under the key of record r
Stored(r, table) == {o \in table : SameKey(o, r)}

\* row x is row o after the upsert of record r: the five columns of set_
\* come from r, every other column and the surrogate id from o
Refreshed(x, o, r) ==
    /\ x.id = o.id
    /\ x.video_id = o.video_id
    /\ x.trending_date = o.trending_date
    /\ x.channel_title = o.channel_title
    /\ x.category_id = o.category_id
    /\ x.publish_time = o.publish_time
    /\ x.title = r.title
    /\ Measures(x) = Measures(r)

\* C13: the upsert statement applied to a batch of records with stored
\* categories and pairwise distinct keys succeeds (when the batch is not
\* empty); every record with a new key is stored as one full new row under a
\* fresh id; every record with a stored key leaves one row under the old id
\* with views, likes, dislikes, comment_count and title of the record (a
\* null included) and every other column as stored; rows whose key is not
\* in the batch are as they were, and no other row appears.
C13_UpsertEffect ==
    (pc = "applied" /\ NoRepeatedKey(considered)) =>
        /\ Len(considered) > 0 => error = "none"
        /\ \A i \in 1..Len(considered) :
              LET r == considered[i]
              IN /\ Cardinality(Stored(r, tx_videos)) = 1
                 /\ IF Stored(r, videos) = {}
                    THEN \E x \in tx_videos :
                            x = VideoRow(r, x.id) /\ x.id \notin IdsOf(videos)
                    ELSE \A o \in Stored(r, videos) :
                            \E x \in tx_videos : Refreshed(x, o, r)
        /\ \A o \in videos :
              (\A i \in 1..Len(considered) : ~SameKey(o, considered[i])) =>
                  o \in tx_videos
        /\ \A x \in tx_videos :
              x \in videos \/ \E i \in 1..Len(considered) : SameKey(x, considered[i])

\* one statement has inserted a new key and has refreshed a stored row whose
\* record differs in every column (the first edition of the line is stored
\* with its comment count, the second edition arrives under the other
\* category and with a null comment count): the null is stored, and so are
\* the old channel, category and publish time
C13_Witness ==
    /\ pc = "applied"
    /\ error = "none"
    /\ NoRepeatedKey(considered)
    /\ \E i \in 1..Len(considered) : Stored(considered[i], videos) = {}
    /\ \E t \in DateTexts, c \in CategoryIds, d \in CategoryIds :
          LET old == Preprocess(<<[CsvLine("vidA", t, 1) EXCEPT !.category_id = c]>>)[1]
              new == Preprocess(<<[CsvLine("vidA", t, 2) EXCEPT !.category_id = d]>>)[1]
          IN /\ c # d
             /\ new.comment_count = NULL
             /\ \E j \in 1..Len(considered) : considered[j] = new
             /\ \E n \in IdsOf(videos) :
                   /\ VideoRow(old, n) \in videos
                   /\ [id |-> n, video_id |-> old.video_id,
                       trending_date |-> old.trending_date, title |-> new.title,
                       channel_title |-> old.channel_title, category_id |-> c,
                       publish_time |-> old.publish_time, views |-> new.views,
                       likes |-> new.likes, dislikes |-> new.dislikes,
                       comment_count |-> NULL] \in tx_videos

\* C14: table categories is append-only: whatever step is taken, by any run
\* on any dimension file, every committed category row is still there
\* afterwards with the same id and the same title, so the set of stored ids
\* only grows.
C14_CategoriesAppendOnly ==
    [][\A c \in categories :
          \E d \in categories' : d.id = c.id /\ d.category_title = c.category_title]_vars

\* a run has committed a new category from a file that also gave a stored id
\* a different title: the stored row is as it was
C14_Witness ==
    /\ pc = "done"
    /\ status = "Committed"
    /\ categories # pre.categories
    /\ \E c \in pre.categories :
          /\ c \in categories
          /\ \E i \in 1..Len(catFile.rows) :
                /\ catFile.rows[i].id = c.id
                /\ catFile.rows[i].category_title # c.category_title

\* the rows passed downstream whose category the store did not hold when the
\* run started and the dimension file of this run supplies
FirstIntroduced ==
    {i \in 1..Len(considered) :
        /\ considered[i].category_id \notin IdsOf(pre.categories)
        /\ \E j \in 1..Len(catFile.rows) : catFile.rows[j].id = considered[i].category_id}

\* C15: inside one run the category insert is executed before the fact
\* upsert and in the same session, and the referential filter sees its rows:
\* a committed run has stored every new fact row whose category id was first
\* introduced by the dimension file of that same run.
C15_CategoryInsertBeforeFilter ==
    /\ writes \in {<<>>, <<"categories">>, <<"categories", "videos">>}
    /\ (pc = "done" /\ status = "Committed") =>
          \A i \in FirstIntroduced : Present(considered[i], videos)

\* a committed run has stored a fact row under a category that the same run
\* inserted
C15_Witness ==
    /\ pc = "done"
    /\ status = "Committed"
    /\ writes = <<"categories", "videos">>
    /\ \E i \in FirstIntroduced :
          /\ Present(considered[i], videos)
          /\ considered[i].category_id \in IdsOf(categories) \ IdsOf(pre.categories)

\* the rows passed downstream whose key occurs again later in the batch
RepeatedIn(df) == {i \in 1..Len(df) : \E j \in 1..Len(df) : j # i /\ SameKey(df[i], df[j])}

\* the last row of df with the key of row i
LatestOf(df, i) == df[Max({j \in 1..Len(df) : SameKey(df[i], df[j])})]

\* C16: a run whose new rows hold a (video_id, trending_date) pair more than
\* once, all with stored categories, and which meets no store fault, ends
\* Committed, and the table then holds exactly one row for that pair, with
\* the title and the measures of the last occurrence.
C16_RepeatedKeyLatestWins ==
    (/\ pc = "done"
     /\ writes # <<>>
     /\ error # "OperationalError"
     /\ RepeatedIn(considered) # {}
     /\ UnknownIn(considered) = {})
    => /\ status = "Committed"
       /\ \A i \in RepeatedIn(considered) :
             /\ Cardinality(Stored(considered[i], videos)) = 1
             /\ \A x \in Stored(considered[i], videos) :
                   /\ x.title = LatestOf(considered, i).title
                   /\ Measures(x) = Measures(LatestOf(considered, i))

\* C17: a run that finds the dimension file or the fact file absent ends
\* Aborted and has executed no write statement on the store: neither the
\* category insert nor the fact upsert.
C17_MissingInputNoWrite ==
    (pc = "done" /\ (catFile.kind = "missing" \/ csvFile.kind = "missing")) =>
        /\ status = "Aborted"
        /\ writes = <<>>

\* the store held fact rows when the run started and no row of the fact file
\* is newer than the watermark of then
NothingNew ==
    /\ pre.videos # {}
    /\ csvFile.kind = "ok"
    /\ \A i \in 1..Len(Batch) : Batch[i].trending_date <= Watermark(pre.videos)

\* C18: a run on a non-empty store whose fact file holds no row newer than
\* the watermark, whose category insert succeeds and which meets no store
\* fault, passes nothing downstream: load_videos returns before the
\* referential filter (no drop count) and the upsert (the category insert is
\* the run's only write), the run ends Committed, table videos is as it was,
\* and every category id of the dimension file is committed.
C18_NoNewDataRun ==
    (pc = "done" /\ NothingNew /\ writes # <<>> /\ error # "OperationalError") =>
        /\ status = "Committed"
        /\ considered = <<>>
        /\ dropped_count = NotReported
        /\ writes = <<"categories">>
        /\ videos = pre.videos
        /\ \A j \in 1..Len(catFile.rows) : catFile.rows[j].id \in IdsOf(categories)

\* a run has found only rows at or before the watermark in a fact file that
\* is not empty, and has committed a category the store did not hold
C18_Witness ==
    /\ pc = "done"
    /\ status = "Committed"
    /\ NothingNew
    /\ Len(Batch) > 0
    /\ videos = pre.videos
    /\ IdsOf(categories) # IdsOf(pre.categories)
====
